---- MODULE Spec2Model ----
(***************************************************************************)
(* A model of the companion application:                                   *)
(*   - Companion.load_prompt and Companion.chat   (python/companion.py)    *)
(*   - MyBot.index_content                        (python/src/api.py)      *)
(* Python strings are sequences of one-character strings, so that          *)
(* str.split, len and the f-string conversions are computed, not assumed.  *)
(***************************************************************************)
EXTENDS Integers, Sequences, FiniteSets, TLC

VARIABLES
    self,        \* the Companion instance: attribute name -> value
    loads,       \* number of load_prompt calls made so far
    data,        \* text of the file the last load_prompt call read
    before,      \* the instance as it was when the last load_prompt call began
    loadResult   \* how the last load_prompt call ended

loadVars == <<self, loads, data, before, loadResult>>

VARIABLES
    history,     \* the History Store: the entries written, oldest first
    pc,          \* per chat task: the await it is suspended at, or how it ended
    frame,       \* per chat task: the local variables of Companion.chat
    trace,       \* per chat task: the collaborator calls it has made, in order
    ret          \* per chat task: what the call gave its caller

chatVars == <<history, pc, frame, trace, ret>>

VARIABLES
    documents,   \* index_content: the loaded documents, in load order
    cur,         \* index_content: the place of the document being processed
    ipc,         \* index_content: the call it is about to make, or how it ended
    created,     \* the documents a File was created for
    status,      \* per document: the statuses its File was given, in order
    chunks,      \* per document: the number of chunks it was split into
    vectorstore, \* the chunks added to the vector store, in order
    failure,     \* the exception a call of index_content's loop raised, if any
    iret         \* what index_content gave its caller

indexVars ==
    <<documents, cur, ipc, created, status, chunks, vectorstore, failure, iret>>

\* ------------------------------------------------------------------ bounds

\* Number of pieces a backstory file is made of.
MaxPieces == 3
\* Number of load_prompt calls in one behaviour.
MaxLoads == 2
\* max_reply_length ranges over -MaxReplyLength..MaxReplyLength.
MaxReplyLength == 10
\* Number of documents one index_content call loads.
MaxDocs == 3
\* Number of chunks a document is split into.
MaxChunks == 2

\* ------------------------------------------------------------ text helpers

RECURSIVE Flatten(_)
\* The concatenation of a sequence of strings.
Flatten(ss) == IF ss = <<>> THEN <<>> ELSE Head(ss) \o Flatten(Tail(ss))

\* Whether sep occurs in s at index i.
OccursAt(s, sep, i) ==
    /\ i >= 1
    /\ i + Len(sep) - 1 <= Len(s)
    /\ SubSeq(s, i, i + Len(sep) - 1) = sep

\* str.find, 1-based: the index of the leftmost occurrence of sep in s, 0 if none.
Find(s, sep) ==
    LET hits == {i \in 1..Len(s) : OccursAt(s, sep, i)}
    IN  IF hits = {} THEN 0 ELSE CHOOSE i \in hits : \A j \in hits : i <= j

\* sep in s
Contains(s, sep) == Find(s, sep) # 0

\* The number of places where sep occurs in s.
Occurrences(s, sep) == Cardinality({i \in 1..Len(s) : OccursAt(s, sep, i)})

\* s.split(sep, 1): <<s>> when sep does not occur, else the text before the
\* leftmost occurrence and the text after it.
Split1(s, sep) ==
    LET i == Find(s, sep)
    IN  IF i = 0 THEN <<s>>
        ELSE <<SubSeq(s, 1, i - 1), SubSeq(s, i + Len(sep), Len(s))>>

\* ------------------------------------------------------- Companion: persona

ENDPREAMBLE ==
    <<"#","#","#","E","N","D","P","R","E","A","M","B","L","E","#","#","#">>
ENDSEEDCHAT ==
    <<"#","#","#","E","N","D","S","E","E","D","C","H","A","T","#","#","#">>

\* The slots of prompt_template_str.
TemplateSlots ==
    {"name", "user_name", "preamble", "relevantHistory", "replyLimit",
     "recentChatHistory"}

\* PromptTemplate.from_template(prompt_template_str)
CompiledTemplate == [input_variables |-> TemplateSlots]

\* The configuration record the companion is constructed from.
CData ==
    [name     |-> <<"R","i","c","k">>,
     title    |-> <<"S","c","i","e","n","t","i","s","t">>,
     imageUrl |-> <<"r",".","p","n","g">>,
     llm      |-> <<"c","h","a","t","g","p","t">>]

\* Companion.__init__
NewCompanion(cdata) ==
    [name      |-> cdata.name,
     title     |-> cdata.title,
     imagePath |-> cdata.imageUrl,
     llm_name  |-> cdata.llm]

\* obj.k = v
SetAttr(obj, k, v) ==
    [a \in DOMAIN obj \cup {k} |-> IF a = k THEN v ELSE obj[a]]

\* The attributes load_prompt is specified to populate.
PersonaAttrs == {"preamble", "seed_chat", "backstory", "prompt_template"}

\* The backstory files: every concatenation of at most MaxPieces pieces, a
\* piece being plain text or one of the delimiters, and the reference file
\* PRE###ENDPREAMBLE###SEED###ENDSEEDCHAT###STORY.
PRE   == <<"P","R","E">>
SEED  == <<"S","E","E","D">>
STORY == <<"S","T","O","R","Y">>
Pieces == {<<"x">>, ENDPREAMBLE, ENDSEEDCHAT}
Example == PRE \o ENDPREAMBLE \o SEED \o ENDSEEDCHAT \o STORY
\* ###ENDPREAMBLE###ENDSEEDCHAT###: the two delimiters sharing one "###".
Shared == ENDPREAMBLE \o SubSeq(ENDSEEDCHAT, 4, Len(ENDSEEDCHAT))
Texts ==
    {Flatten(ps) : ps \in UNION {[1..n -> Pieces] : n \in 0..MaxPieces}}
        \cup {Example, Shared}

NoResult == [kind |-> "none"]
Return(v) == [kind |-> "return", value |-> v]
Raise(e)  == [kind |-> "raise", exc |-> e]

\* The body of load_prompt on the text `text` read from the file: the
\* instance and the result it ends with.  Each tuple assignment unpacks the
\* split first and raises ValueError, storing nothing, unless it has two
\* parts; what earlier statements stored stays stored.
LoadOutcome(obj, text) ==
    LET p1 == Split1(text, ENDPREAMBLE)
    IN  IF Len(p1) # 2 THEN [obj |-> obj, result |-> Raise("ValueError")]
        ELSE
          LET o1 == SetAttr(obj, "preamble", p1[1])
              p2 == Split1(p1[2], ENDSEEDCHAT)
          IN  IF Len(p2) # 2 THEN [obj |-> o1, result |-> Raise("ValueError")]
              ELSE
                LET o2 == SetAttr(o1, "seed_chat", p2[1])
                    o3 == SetAttr(o2, "backstory", p2[2])
                    o4 == SetAttr(o3, "prompt_template", CompiledTemplate)
                IN  [obj |-> o4,
                     result |-> Return(Len(o4.preamble) + Len(o4.seed_chat))]

\* Companion.load_prompt(file_path), the file holding `text`.
LoadPrompt ==
    /\ loads < MaxLoads
    /\ \E text \in Texts :
         LET out == LoadOutcome(self, text)
         IN  /\ data' = text
             /\ before' = self
             /\ self' = out.obj
             /\ loadResult' = out.result
    /\ loads' = loads + 1

\* ---------------------------------------------------------- History Store

\* The number of entries read_latest_history returns.
HistoryWindow == 2

\* memory.write_to_history(text): the store with the entry appended.
StoreWrite(store, text) == Append(store, text)

\* The places of the store read_latest_history reads: the latest
\* HistoryWindow entries.
LatestSpan(store) ==
    {i \in 1..Len(store) : i > Len(store) - HistoryWindow}

\* memory.read_latest_history(): the text of the latest entries, oldest first.
StoreReadLatest(store) ==
    Flatten(SubSeq(store, Len(store) - Cardinality(LatestSpan(store)) + 1,
                   Len(store)))

\* ---------------------------------------------------------- Companion.chat

Tasks == {1, 2}

\* Python's None: no text, a text being a sequence of single characters.
None == <<"None">>

Digit(d) == <<"0","1","2","3","4","5","6","7","8","9">>[d + 1]

RECURSIVE Digits(_)
\* The decimal digits of a natural number.
Digits(n) == IF n < 10 THEN <<Digit(n)>> ELSE Digits(n \div 10) \o <<Digit(n % 10)>>

\* str(n), the conversion an f-string applies to an int.
ToStr(n) == IF n < 0 THEN <<"-">> \o Digits(-n) ELSE Digits(n)

\* Mutant of Truthy: the test "is not None" in place of truthiness.
TruthyNotNone(v) == v # None

\* bool(v) of a str or None.
Truthy(v) == v # None /\ v # <<>>

\* bool(n) of an int.
TruthyInt(n) == n # 0

\* f"Human: {user_input}\n"
HumanEntry(user_input) ==
    <<"H","u","m","a","n",":"," ">> \o user_input \o <<"\n">>

\* result + "\n"
ResponseEntry(result) == result \o <<"\n">>

\* f'You reply within {max_reply_length} characters.' if max_reply_length else ""
ReplyLimit(max_reply_length) ==
    IF TruthyInt(max_reply_length)
    THEN <<"Y","o","u"," ","r","e","p","l","y"," ","w","i","t","h","i","n"," ">>
            \o ToStr(max_reply_length)
            \o <<" ","c","h","a","r","a","c","t","e","r","s",".">>
    ELSE <<>>

\* Mutant of ChainArgs: the recent history read is not passed on.
ChainArgsDropsRecent(obj, f, recent) ==
    [name              |-> obj.name,
     user_name         |-> f.user_name,
     preamble          |-> obj.preamble,
     replyLimit        |-> ReplyLimit(f.max_reply_length),
     relevantHistory   |-> obj.backstory,
     recentChatHistory |-> <<>>]

\* The keyword arguments of self.llm.chain.run(...).
ChainArgs(obj, f, recent) ==
    [name              |-> obj.name,
     user_name         |-> f.user_name,
     preamble          |-> obj.preamble,
     replyLimit        |-> ReplyLimit(f.max_reply_length),
     relevantHistory   |-> obj.backstory,
     recentChatHistory |-> recent]

\* Mutant of TryRun: no except clause, the exception leaves chat.
TryRunUncaught(outcome) ==
    IF outcome.kind = "return" THEN Return(outcome.value)
    ELSE Raise(outcome.exc)

\* try: result = chain.run(...)  except Exception: result = None
\* The value of result after the try statement, or the exception leaving it.
TryRun(outcome) ==
    IF outcome.kind = "return" THEN Return(outcome.value)
    ELSE IF outcome.exc = "Exception" THEN Return(None)
    ELSE Raise(outcome.exc)

HELLO == <<"h","e","l","l","o">>
HI    == <<"h","i">>
OK    == <<"o","k">>
ANN   == <<"A","n","n">>

UserInputs == {HELLO, HI}
UserNames == {ANN}
ReplyLengths == -MaxReplyLength..MaxReplyLength

\* How a backend invocation can end: it returns text, returns the empty
\* string, returns None, or raises an Exception.
BackendOutcomes == {Return(OK), Return(<<>>), Return(None), Raise("Exception")}

\* How a History Store call can end.
StoreOutcomes == {"ok", "raise"}

Log(t, event) == [trace EXCEPT ![t] = Append(@, event)]

\* Mutant of FirstAwait: chat begins at the history read, the Human entry
\* never written.
FirstAwaitSkipsWrite == "read"

\* The await chat suspends at first: the write of the Human entry.
FirstAwait == "write_human"

\* Mutant of AwaitRaised: the exception is swallowed and chat returns None.
AwaitRaisedSwallowed(exc) == [pc |-> "done", ret |-> Return(None)]

\* An awaited History Store call raised exc: no try statement encloses the
\* awaits, so chat ends there and the exception reaches the caller.
AwaitRaised(exc) == [pc |-> "raised", ret |-> Raise(exc)]

\* chat(user_input, user_name, max_reply_length) is called and runs to its
\* first await: write_to_history(f"Human: {user_input}\n") is pending.
ChatCall(t) ==
    /\ pc[t] = "idle"
    /\ \E ui \in UserInputs, un \in UserNames, n \in ReplyLengths :
         frame' = [frame EXCEPT ![t] =
                     [user_input |-> ui, user_name |-> un,
                      max_reply_length |-> n]]
    /\ pc' = [pc EXCEPT ![t] = FirstAwait]
    /\ UNCHANGED <<history, trace, ret>>

\* The write of the Human entry ends.  When it raises, so does chat; else the
\* task goes on to its next await: read_latest_history() is pending.
WriteHuman(t) ==
    /\ pc[t] = "write_human"
    /\ \E o \in StoreOutcomes :
         LET text == HumanEntry(frame[t].user_input)
         IN  IF o = "ok"
             THEN /\ history' = StoreWrite(history, text)
                  /\ trace' = Log(t, [op |-> "write", text |-> text, ok |-> TRUE,
                                      at |-> Len(history) + 1])
                  /\ pc' = [pc EXCEPT ![t] = "read"]
                  /\ UNCHANGED ret
             ELSE /\ trace' = Log(t, [op |-> "write", text |-> text, ok |-> FALSE])
                  /\ pc' = [pc EXCEPT ![t] = AwaitRaised("StoreError").pc]
                  /\ ret' = [ret EXCEPT ![t] = AwaitRaised("StoreError").ret]
                  /\ UNCHANGED history
    /\ UNCHANGED frame

\* The read of the recent history ends.  When it raises, so does chat; else
\* the task runs, without suspending, up to its next await or its return:
\* it builds the reply limit, runs the chain (which returns or raises), and
\* either has write_to_history(result + "\n") pending or returns result.
ReadHistory(t) ==
    /\ pc[t] = "read"
    /\ \/ /\ trace' = Log(t, [op |-> "read", ok |-> FALSE])
          /\ pc' = [pc EXCEPT ![t] = AwaitRaised("StoreError").pc]
          /\ ret' = [ret EXCEPT ![t] = AwaitRaised("StoreError").ret]
          /\ UNCHANGED frame
       \/ \E outcome \in BackendOutcomes :
            LET recent == StoreReadLatest(history)
                args   == ChainArgs(self, frame[t], recent)
                after  == TryRun(outcome)
                read   == [op |-> "read", ok |-> TRUE, len |-> Len(history),
                           span |-> LatestSpan(history)]
                run    == [op |-> "backend", args |-> args, outcome |-> outcome]
            IN  /\ trace' = [trace EXCEPT ![t] = @ \o <<read, run>>]
                /\ IF after.kind = "raise"
                   THEN /\ pc' = [pc EXCEPT ![t] = "raised"]
                        /\ ret' = [ret EXCEPT ![t] = after]
                        /\ UNCHANGED frame
                   ELSE /\ frame' = [frame EXCEPT ![t] =
                                       [a \in DOMAIN @ \cup {"result"} |->
                                          IF a = "result" THEN after.value ELSE @[a]]]
                        /\ IF Truthy(after.value)
                           THEN /\ pc' = [pc EXCEPT ![t] = "write_response"]
                                /\ UNCHANGED ret
                           ELSE /\ pc' = [pc EXCEPT ![t] = "done"]
                                /\ ret' = [ret EXCEPT ![t] = Return(after.value)]
    /\ UNCHANGED history

\* The write of the response ends.  When it raises, so does chat; else chat
\* returns result.
WriteResponse(t) ==
    /\ pc[t] = "write_response"
    /\ \E o \in StoreOutcomes :
         LET text == ResponseEntry(frame[t].result)
         IN  IF o = "ok"
             THEN /\ history' = StoreWrite(history, text)
                  /\ trace' = Log(t, [op |-> "write", text |-> text, ok |-> TRUE,
                                      at |-> Len(history) + 1])
                  /\ pc' = [pc EXCEPT ![t] = "done"]
                  /\ ret' = [ret EXCEPT ![t] = Return(frame[t].result)]
             ELSE /\ trace' = Log(t, [op |-> "write", text |-> text, ok |-> FALSE])
                  /\ pc' = [pc EXCEPT ![t] = AwaitRaised("StoreError").pc]
                  /\ ret' = [ret EXCEPT ![t] = AwaitRaised("StoreError").ret]
                  /\ UNCHANGED history
    /\ UNCHANGED frame

\* ------------------------------------------------------ MyBot.index_content

FileType == {"YOUTUBE", "PDF", "WEB", "TEXT"}

\* The file types FILE_LOADERS has a loader for.
FILE_LOADERS == {"YOUTUBE", "PDF", "TEXT"}

\* The return values of index_content: a str, or the SteamshipError caught.
StrValue(text) == [type |-> "str", text |-> text]
Added == StrValue("Added.")
AlreadyAdded == StrValue("Failed. Resource already added.")

SteamshipError(code) == [type |-> "SteamshipError", code |-> code]

\* How a call to the platform can end: it succeeds, or raises a
\* SteamshipError with code ObjectExists or another code, or raises an
\* exception of another type.
CallOutcomes ==
    {[type |-> "ok"], SteamshipError("ObjectExists"), SteamshipError("Failed"),
     [type |-> "ConnectionError"]}

NoFailure == [type |-> "none"]

\* The loop moves on from the document at place c, of n: to the next
\* document, or to the return of "Added." after the last one.
Advance(c, n) ==
    IF c < n THEN [ipc |-> "create", cur |-> c + 1, iret |-> NoResult]
    ELSE [ipc |-> "returned", cur |-> c, iret |-> Return(Added)]

\* Mutant of Raised: the except clause discards a SteamshipError and the
\* loop goes on with the next document.
RaisedAndSkipped(exc, c, n) ==
    IF exc.type = "SteamshipError" THEN Advance(c, n)
    ELSE [ipc |-> "raised", cur |-> c, iret |-> Raise(exc)]

\* A call in the try block raised exc while the document at place c, of n,
\* was processed: the except clause returns on a SteamshipError; any other
\* exception leaves index_content.
Raised(exc, c, n) ==
    IF exc.type = "SteamshipError"
    THEN [ipc |-> "returned", cur |-> c,
          iret |-> Return(IF exc.code = "ObjectExists" THEN AlreadyAdded ELSE exc)]
    ELSE [ipc |-> "raised", cur |-> c, iret |-> Raise(exc)]

\* The control state moves to `to`.
Goto(to) ==
    /\ ipc' = to.ipc
    /\ cur' = to.cur
    /\ iret' = to.iret

\* A platform call made at `at` ends: with `then` when it succeeds and the
\* next call is `next`; in the except clause, nothing else changed, when it
\* raises.
PlatformCall(at, next, then) ==
    /\ ipc = at
    /\ \E o \in CallOutcomes :
         IF o.type = "ok"
         THEN /\ then
              /\ Goto(next)
              /\ UNCHANGED failure
         ELSE /\ Goto(Raised(o, cur, Len(documents)))
              /\ failure' = o
              /\ UNCHANGED <<created, status, chunks, vectorstore>>
    /\ UNCHANGED documents

Stay(to) == [ipc |-> to, cur |-> cur, iret |-> iret]

\* index_content(content, file_type): FILE_LOADERS[file_type](content).load().
\* FILE_LOADERS has no WEB entry (KeyError) and its TEXT entry is a Document,
\* which has no load (AttributeError); the other loaders give the documents.
IndexCall ==
    /\ ipc = "idle"
    /\ \E ft \in FileType, n \in 0..MaxDocs :
         IF ft \notin FILE_LOADERS
         THEN /\ Goto([ipc |-> "raised", cur |-> 0, iret |-> Raise([type |-> "KeyError"])])
              /\ UNCHANGED <<documents, status, chunks>>
         ELSE IF ft = "TEXT"
         THEN /\ Goto([ipc |-> "raised", cur |-> 0,
                       iret |-> Raise([type |-> "AttributeError"])])
              /\ UNCHANGED <<documents, status, chunks>>
         ELSE /\ documents' = [d \in 1..n |-> [file_type |-> ft, place |-> d]]
              /\ status' = [d \in 1..n |-> <<>>]
              /\ chunks' = [d \in 1..n |-> 0]
              /\ Goto(Advance(0, n))
    /\ UNCHANGED <<created, vectorstore, failure>>

\* f = File.create(...)
FileCreate ==
    PlatformCall("create", Stay("importing"),
        /\ created' = created \cup {cur}
        /\ UNCHANGED <<status, chunks, vectorstore>>)

\* update_file_status(self.client, f, "Importing"), then the document is
\* split into chunks.
SetImporting ==
    PlatformCall("importing", Stay("indexing"),
        /\ status' = [status EXCEPT ![cur] = Append(@, "Importing")]
        /\ \E k \in 0..MaxChunks : chunks' = [chunks EXCEPT ![cur] = k]
        /\ UNCHANGED <<created, vectorstore>>)

\* update_file_status(self.client, f, "Indexing")
SetIndexing ==
    PlatformCall("indexing", Stay("add"),
        /\ status' = [status EXCEPT ![cur] = Append(@, "Indexing")]
        /\ UNCHANGED <<created, chunks, vectorstore>>)

\* self.get_vectorstore().add_documents(chunks)
AddDocuments ==
    PlatformCall("add", Stay("indexed"),
        /\ vectorstore' = vectorstore \o [k \in 1..chunks[cur] |-> <<cur, k>>]
        /\ UNCHANGED <<created, status, chunks>>)

\* update_file_status(self.client, f, "Indexed"), then the loop goes on.
SetIndexed ==
    PlatformCall("indexed", Advance(cur, Len(documents)),
        /\ status' = [status EXCEPT ![cur] = Append(@, "Indexed")]
        /\ UNCHANGED <<created, chunks, vectorstore>>)

\* ------------------------------------------------- initial states, specifications

IndexIdle ==
    /\ documents = <<>>
    /\ cur = 0
    /\ ipc = "idle"
    /\ created = {}
    /\ status = <<>>
    /\ chunks = <<>>
    /\ vectorstore = <<>>
    /\ failure = NoFailure
    /\ iret = NoResult

ChatIdle ==
    /\ history = <<>>
    /\ pc = [t \in Tasks |-> "idle"]
    /\ frame = [t \in Tasks |-> <<>>]
    /\ trace = [t \in Tasks |-> <<>>]
    /\ ret = [t \in Tasks |-> NoResult]

\* A companion just constructed.
LoadInit ==
    /\ self = NewCompanion(CData)
    /\ loads = 0
    /\ data = <<>>
    /\ before = NewCompanion(CData)
    /\ loadResult = NoResult
    /\ ChatIdle
    /\ IndexIdle

\* A companion whose backstory was loaded from the reference file, its
\* History Store empty, no chat call made yet.
ChatInit ==
    /\ self = LoadOutcome(NewCompanion(CData), Example).obj
    /\ loads = 1
    /\ data = Example
    /\ before = NewCompanion(CData)
    /\ loadResult = LoadOutcome(NewCompanion(CData), Example).result
    /\ ChatIdle
    /\ IndexIdle

\* The bot before any index_content call.
IndexInit ==
    /\ self = NewCompanion(CData)
    /\ loads = 0
    /\ data = <<>>
    /\ before = NewCompanion(CData)
    /\ loadResult = NoResult
    /\ ChatIdle
    /\ IndexIdle

vars == <<loadVars, chatVars, indexVars>>

LoadNext == LoadPrompt /\ UNCHANGED <<chatVars, indexVars>>

ChatNext ==
    \E t \in Tasks :
        \/ ChatCall(t) /\ UNCHANGED <<loadVars, indexVars>>
        \/ WriteHuman(t) /\ UNCHANGED <<loadVars, indexVars>>
        \/ ReadHistory(t) /\ UNCHANGED <<loadVars, indexVars>>
        \/ WriteResponse(t) /\ UNCHANGED <<loadVars, indexVars>>

IndexNext ==
    \/ IndexCall /\ UNCHANGED <<loadVars, chatVars>>
    \/ FileCreate /\ UNCHANGED <<loadVars, chatVars>>
    \/ SetImporting /\ UNCHANGED <<loadVars, chatVars>>
    \/ SetIndexing /\ UNCHANGED <<loadVars, chatVars>>
    \/ AddDocuments /\ UNCHANGED <<loadVars, chatVars>>
    \/ SetIndexed /\ UNCHANGED <<loadVars, chatVars>>

\* The specification of the persona store: a companion is constructed and
\* load_prompt is called on it, at most MaxLoads times.
SpecLoad == LoadInit /\ [][LoadNext]_vars

\* The specification of the turn executor: chat tasks on one loaded
\* companion and one History Store, interleaving at their awaits.
SpecChat == ChatInit /\ [][ChatNext]_vars

\* The specification of the content indexer: one index_content call.
SpecIndex == IndexInit /\ [][IndexNext]_vars

\* ------------------------------------------------- properties of load_prompt

\* The persona attributes of an instance, absent ones left out.
Persona(obj) == [a \in DOMAIN obj \cap PersonaAttrs |-> obj[a]]

\* The text after the leftmost ###ENDPREAMBLE### of a text that has one.
Rest(text) == Split1(text, ENDPREAMBLE)[2]

\* A resource with both delimiters in order: an ###ENDPREAMBLE###, and an
\* ###ENDSEEDCHAT### after it.
BothInOrder(text) ==
    /\ Contains(text, ENDPREAMBLE)
    /\ Contains(Rest(text), ENDSEEDCHAT)

\* A resource with each delimiter exactly once, ###ENDPREAMBLE### first.
ExactlyOnceInOrder(text) ==
    /\ Occurrences(text, ENDPREAMBLE) = 1
    /\ Occurrences(text, ENDSEEDCHAT) = 1
    /\ Find(text, ENDPREAMBLE) + Len(ENDPREAMBLE) <= Find(text, ENDSEEDCHAT)

Called == loads > 0
Loaded == Called /\ loadResult.kind = "return"
Failed == Called /\ loadResult.kind = "raise"

\* C5: whenever load_prompt was called on a resource that has both
\* delimiters in order, it returned len(preamble) + len(seed_chat), and none
\* of preamble, seed_chat, backstory contains ###ENDPREAMBLE### or
\* ###ENDSEEDCHAT###.
C5_ParsedFieldsFreeOfDelimiters ==
    (Called /\ BothInOrder(data)) =>
        /\ Loaded
        /\ loadResult.value = Len(self.preamble) + Len(self.seed_chat)
        /\ \A a \in {"preamble", "seed_chat", "backstory"} :
             /\ ~Contains(self[a], ENDPREAMBLE)
             /\ ~Contains(self[a], ENDSEEDCHAT)

\* C6: whenever load_prompt was called on a resource that lacks
\* ###ENDPREAMBLE###, or lacks ###ENDSEEDCHAT### after it, the call failed and
\* preamble, seed_chat, backstory and prompt_template are as they were (set
\* to the same values, or still absent) when the call began.
C6_FailedLoadLeavesPersona ==
    (Called /\ ~BothInOrder(data)) =>
        /\ Failed
        /\ Persona(self) = Persona(before)

\* C7: load_prompt populates the persona only from a text that has each
\* delimiter exactly once, ###ENDPREAMBLE### before ###ENDSEEDCHAT###; on any
\* other text the call fails.
C7_AcceptsOnlyExactlyOnce ==
    Called => (Loaded <=> ExactlyOnceInOrder(data))

\* ------------------------------------------------- properties of chat

\* The text "Human: {user_input}\n".
HumanLine(user_input) ==
    <<"H","u","m","a","n",":"," ">> \o user_input \o <<"\n">>

\* The positions of a task's trace that hold a call of the given kind.
Calls(t, op) == {j \in DOMAIN trace[t] : trace[t][j].op = op}

\* The write calls a task has made, in order.
Writes(t) == SelectSeq(trace[t], LAMBDA e : e.op = "write")

\* The event is a completed write of the text, and the store holds it there.
Wrote(e, text) ==
    /\ e.op = "write"
    /\ e.ok
    /\ e.text = text
    /\ e.at \in DOMAIN history
    /\ history[e.at] = text

\* The backend call of the event returned a non-empty text.
GaveText(e) ==
    /\ e.outcome.kind = "return"
    /\ e.outcome.value # None
    /\ e.outcome.value # <<>>

\* C1: in every state, each backend invocation of a chat call is preceded in
\* the call's trace by a completed write of "Human: {user_input}\n" that the
\* History Store holds, whatever the backend then does.
C1_HumanWrittenBeforeBackend ==
    \A t \in Tasks : \A j \in Calls(t, "backend") :
        \E i \in 1..(j - 1) : Wrote(trace[t][i], HumanLine(frame[t].user_input))

\* Witness of C1: a call with input "hello" whose backend raised.
C1_Witness ==
    \E t \in Tasks : \E j \in Calls(t, "backend") :
        /\ frame[t].user_input = HELLO
        /\ trace[t][j].outcome.kind = "raise"

\* C2: a write after the first one is made only after a backend call that
\* returned non-empty text, and writes that text followed by "\n"; a call
\* that returned after such a backend call made exactly the two writes
\* "Human: {user_input}\n" and "{response}\n", in this order, both stored,
\* and returned the response; a call that returned after any other backend
\* outcome made the Human write only.
C2_ResponseWrittenIffText ==
    \A t \in Tasks :
        /\ \A k \in 2..Len(Writes(t)) :
             \E j \in Calls(t, "backend") :
                /\ GaveText(trace[t][j])
                /\ Writes(t)[k].text = trace[t][j].outcome.value \o <<"\n">>
        /\ pc[t] = "done" =>
             \E j \in Calls(t, "backend") :
                IF GaveText(trace[t][j])
                THEN /\ Len(Writes(t)) = 2
                     /\ Wrote(Writes(t)[1], HumanLine(frame[t].user_input))
                     /\ Wrote(Writes(t)[2], trace[t][j].outcome.value \o <<"\n">>)
                     /\ Writes(t)[1].at < Writes(t)[2].at
                     /\ ret[t] = Return(trace[t][j].outcome.value)
                ELSE Len(Writes(t)) = 1

\* Witness of C2: the call chat("hello", ...) returned "ok" from a backend
\* that returned "ok".
C2_Witness ==
    \E t \in Tasks :
        /\ pc[t] = "done"
        /\ frame[t].user_input = HELLO
        /\ ret[t] = Return(OK)
        /\ Len(Writes(t)) = 2

\* C3: a chat call whose backend invocation raised has returned None to its
\* caller, and the only write it made is the one of "Human: {user_input}\n".
C3_BackendFailureCaught ==
    \A t \in Tasks : \A j \in Calls(t, "backend") :
        trace[t][j].outcome.kind = "raise" =>
            /\ pc[t] = "done"
            /\ ret[t] = Return(None)
            /\ Len(Writes(t)) = 1
            /\ Wrote(Writes(t)[1], HumanLine(frame[t].user_input))

\* Witness of C3: a call whose backend raised.
C3_Witness ==
    \E t \in Tasks : \E j \in Calls(t, "backend") :
        /\ trace[t][j].outcome.kind = "raise"
        /\ pc[t] = "done"

\* C4: the replyLimit passed to the backend is the empty string for every
\* max_reply_length <= 0, and "You reply within N characters." for every
\* max_reply_length N > 0.
C4_ReplyLimitOmittedUpToZero ==
    \A t \in Tasks : \A j \in Calls(t, "backend") :
        trace[t][j].args.replyLimit =
            IF frame[t].max_reply_length <= 0 THEN <<>>
            ELSE <<"Y","o","u"," ","r","e","p","l","y"," ","w","i","t","h","i","n"," ">>
                    \o ToStr(frame[t].max_reply_length)
                    \o <<" ","c","h","a","r","a","c","t","e","r","s",".">>

\* The calls a task has completed are, in order, a beginning of: the Human
\* write, the history read, the backend invocation, the response write; and
\* nothing follows a History Store call that raised.
Sequential(t) ==
    /\ Len(trace[t]) <= 4
    /\ \A j \in DOMAIN trace[t] :
         /\ trace[t][j].op = <<"write", "read", "backend", "write">>[j]
         /\ (j < Len(trace[t]) /\ trace[t][j].op # "backend") => trace[t][j].ok
    /\ 1 \in DOMAIN trace[t] /\ trace[t][1].ok =>
         trace[t][1].text = HumanLine(frame[t].user_input)

\* C8 as stated: the calls of each chat task are sequential, and the recent
\* history passed to a task's backend invocation contains the task's own
\* entry "Human: {user_input}\n".
C8_OwnEntryInRecentHistory ==
    \A t \in Tasks :
        /\ Sequential(t)
        /\ \A j \in Calls(t, "backend") :
             Contains(trace[t][j].args.recentChatHistory,
                      HumanLine(frame[t].user_input))

\* C8 as amended: the calls of each chat task are sequential, so the task's
\* own Human entry is in the History Store when its read is served, and the
\* prompt passed to the backend carries exactly the entries read; these
\* include the task's own Human entry whenever fewer than HistoryWindow
\* entries had been appended from it on.
C8_OwnEntryInStoreAtRead ==
    \A t \in Tasks :
        /\ Sequential(t)
        /\ \A j \in Calls(t, "read") :
             trace[t][j].ok =>
                LET own    == trace[t][1]
                    read   == trace[t][j]
                    recent == trace[t][j + 1].args.recentChatHistory
                IN  /\ Wrote(own, HumanLine(frame[t].user_input))
                    /\ own.at <= read.len
                    /\ recent = Flatten([i \in 1..Cardinality(read.span) |->
                                  history[read.len - Cardinality(read.span) + i]])
                    /\ read.len - own.at < HistoryWindow =>
                         /\ own.at \in read.span
                         /\ Contains(recent, HumanLine(frame[t].user_input))

\* Witness of C8: two tasks interleaved; the one that wrote its Human entry
\* first read after the other had written its own, and still read its entry.
C8_Witness ==
    \E t, u \in Tasks :
        /\ t # u
        /\ pc[t] = "done" /\ pc[u] = "done"
        /\ Len(trace[t]) = 4
        /\ trace[t][1].at < trace[u][1].at
        /\ trace[u][1].at <= trace[t][2].len
        /\ trace[t][1].at \in trace[t][2].span

\* C9: a chat call whose Human write raised ended by raising, having made no
\* other call; one whose history read raised ended by raising, its Human
\* entry stored and the backend not invoked; one whose response write raised
\* ended by raising, so the response was not returned.
C9_StoreFailurePropagates ==
    \A t \in Tasks : \A j \in DOMAIN trace[t] :
        (trace[t][j].op # "backend" /\ ~trace[t][j].ok) =>
            /\ pc[t] = "raised"
            /\ ret[t].kind = "raise"
            /\ j = Len(trace[t])
            /\ j = 1 => Calls(t, "read") = {} /\ Calls(t, "backend") = {}
            /\ j = 2 => /\ Wrote(trace[t][1], HumanLine(frame[t].user_input))
                        /\ Calls(t, "backend") = {}
            /\ j = 4 => ret[t] # Return(frame[t].result)

\* Witness of C9: one call ended at a history read that raised, another at a
\* response write that raised.
C9_Witness ==
    \E t, u \in Tasks :
        /\ pc[t] = "raised" /\ Len(trace[t]) = 2
        /\ pc[u] = "raised" /\ Len(trace[u]) = 4

\* ---------------------------------------------- properties of index_content

StatusOrder == <<"Importing", "Indexing", "Indexed">>

\* The document's File has the status Indexed.
Indexed(d) == status[d] = StatusOrder

\* The chunks of document d that the vector store holds.
Stored(d) == {j \in DOMAIN vectorstore : vectorstore[j][1] = d}

\* The index_content call ended in its except clause.
ReturnedOnError == failure.type = "SteamshipError"

\* C10: the documents are processed one at a time in load order (every
\* document before the current one is Indexed with its chunks stored, no
\* document after it has a File, a status or a chunk stored); each File is
\* given Importing, Indexing, Indexed in this order, and is Indexed only with
\* the document's chunks in the vector store; "Added." is returned only with
\* every document Indexed; and a SteamshipError ends the call at once with
\* another result ("Failed. Resource already added." for ObjectExists), the
\* failing document not Indexed, the later ones untouched, the earlier ones
\* still Indexed.
C10_IndexedInOrderUntilError ==
    /\ \A d \in DOMAIN documents :
         /\ d < cur => Indexed(d)
         /\ d > cur => d \notin created /\ status[d] = <<>> /\ Stored(d) = {}
         /\ status[d] = SubSeq(StatusOrder, 1, Len(status[d]))
         /\ status[d] # <<>> => d \in created
         /\ Indexed(d) => Cardinality(Stored(d)) = chunks[d]
         /\ ~Indexed(d) /\ Stored(d) # {} => status[d] = <<"Importing", "Indexing">>
    /\ \A j \in DOMAIN vectorstore :
         \A i \in 1..(j - 1) : vectorstore[i][1] <= vectorstore[j][1]
    /\ iret = Return(Added) => \A d \in DOMAIN documents : Indexed(d)
    /\ ReturnedOnError =>
         /\ ipc = "returned"
         /\ iret.kind = "return" /\ iret.value # Added
         /\ failure.code = "ObjectExists" => iret.value = AlreadyAdded
         /\ cur \in DOMAIN documents /\ ~Indexed(cur)

\* Witness of C10: the second document's File.create raised ObjectExists
\* after the first document was indexed with two chunks, and a third document
\* was left.
C10_Witness ==
    /\ Len(documents) = 3
    /\ cur = 2
    /\ failure = SteamshipError("ObjectExists")
    /\ iret = Return(AlreadyAdded)
    /\ Indexed(1) /\ Cardinality(Stored(1)) = 2
    /\ 2 \notin created

====
